---- MODULE Spec2Model ----
(***************************************************************************)
(* Model of the StackSentinel Python client (src/StackSentinel/__init__.py) *)
(*                                                                         *)
(*   StackSentinelClient.__init__ / handle_exception / _get_sys_info /     *)
(*   _get_machine_info / send_error / _generate_request                    *)
(*   StackSentinelMiddleware.__call__ (a generator function)               *)
(*                                                                         *)
(* Python values are tagged records [t, v]; an exception object is a       *)
(* record [cls, args, origin] where origin tells who raised it, so that    *)
(* two exceptions raised at different places are different objects.        *)
(***************************************************************************)
EXTENDS Integers, Sequences, FiniteSets, TLC

\* ------------------------------------------------------------------ bounds
\* Longest args tuple of a handled exception.
MaxArgs == 2
\* Longest traceback chain of a handled exception.
MaxFrames == 2
\* Most items an application response yields.
MaxItems == 2

\* ---------------------------------------------------------- Python values
PyNone == [t |-> "none", v |-> ""]
PyStr(s) == [t |-> "str", v |-> s]
PyList(l) == [t |-> "list", v |-> l]
PyDict(d) == [t |-> "dict", v |-> d]
PyExc(e) == [t |-> "exc", v |-> e]

\* The empty dict: a function with the empty domain.
EmptyDict == [k \in {} |-> PyNone]

\* d[key] = val of a Python dict (a function from its keys).
DictSet(d, key, val) == [k \in (DOMAIN d) \cup {key} |-> IF k = key THEN val ELSE d[k]]

Exc(cls, args, origin) == [cls |-> cls, args |-> args, origin |-> origin]

\* sys.exc_info() when no exception is being handled: the triple
\* (None, None, None), which is a tuple and not None.
NoExcInfo == [t |-> "triple", v |-> [etype |-> "None", value |-> PyNone, tb |-> <<>>]]

\* sys.exc_info() while exception e with traceback chain tb is handled.
ExcInfo(e, tb) == [t |-> "triple", v |-> [etype |-> e.cls, value |-> PyExc(e), tb |-> tb]]

\* One traceback link: tb_lineno, f_code.co_filename, f_code.co_name.
TbLink(i) == [tb_lineno |-> i, co_filename |-> "app.py", co_name |-> "f" \o ToString(i)]

TbChain(n) == [i \in 1..n |-> TbLink(i)]

ArgsOf(n) == [i \in 1..n |-> "arg" \o ToString(i)]

\* ------------------------------------------------- text of Python values
RECURSIVE JoinQuoted(_)
\* 'a', 'b', ... : the items of a tuple's repr.
JoinQuoted(s) ==
    IF Len(s) = 0 THEN ""
    ELSE IF Len(s) = 1 THEN "'" \o s[1] \o "'"
    ELSE "'" \o s[1] \o "', " \o JoinQuoted(Tail(s))

\* repr(args) of an args tuple of strings with at least two items.
TupleRepr(s) == "(" \o JoinQuoted(s) \o ")"

\* str(value) / unicode(value) of an exception: BaseException.__str__ gives ''
\* without args, str(args[0]) with one, and str(args) (the tuple) otherwise;
\* KeyError.__str__ gives repr(args[0]) with one argument.
StrOfException(e) ==
    IF Len(e.args) = 0 THEN ""
    ELSE IF Len(e.args) = 1
         THEN IF e.cls = "KeyError" THEN "'" \o e.args[1] \o "'" ELSE e.args[1]
         ELSE TupleRepr(e.args)

\* repr(value) of an exception, and of None.
ReprOfValue(val) ==
    IF val.t = "none" THEN "None"
    ELSE val.v.cls \o "(" \o JoinQuoted(val.v.args) \o ")"

\* ------------------------------------------------- StackSentinelClient
\* __init__: the configuration; tags that are None or empty become [].
ClientInit(account_token, project_token, environment, tags, endpoint) ==
    [account_token |-> account_token,
     project_token |-> project_token,
     endpoint |-> endpoint,
     environment |-> environment,
     tags |-> IF tags.t = "list" /\ Len(tags.v) > 0 THEN tags.v ELSE <<>>]

DefaultEndpoint == "https://api.stacksentinel.com/api/v1/insert"

\* What the environment does to one call's collectors.
NoFaults == [sys |-> FALSE, hostname |-> FALSE, platform |-> FALSE]

\* What urlopen does: kind is "ok" (a JSON reply), "http_error" (an HTTPError
\* with code and body) or "url_error" (a network failure, not an HTTPError).
HttpUnused == [kind |-> "unused", code |-> 0, body |-> ""]

NoOutcome == [kind |-> "none", val |-> PyNone]

Return(val) == [kind |-> "return", val |-> val]

Raise(e) == [kind |-> "raise", val |-> PyExc(e)]

\* The frame of one handle_exception call: its parameters (inp), its locals
\* under the names the code gives them, and what it did (sent: the arguments
\* handed to send_error; request: what was handed to urlopen; urlopens: the
\* number of urlopen calls; outcome: how the call ended).
Frame(inp) ==
    [inp |-> inp,
     exc_info |-> inp.exc_info,
     etype |-> "",
     value |-> PyNone,
     tb |-> <<>>,
     msg |-> "",
     tags |-> inp.tags,
     new_tb |-> <<>>,
     state |-> inp.state,
     faults |-> NoFaults,
     send_error_args |-> PyNone,
     sent |-> PyNone,
     request |-> PyNone,
     http |-> HttpUnused,
     urlopens |-> 0,
     outcome |-> NoOutcome]

\* Lines 125-128: take sys.exc_info() when exc_info is falsy; raise when the
\* result is None.
ResolveExcInfo(L, ambient) ==
    LET exc_info == IF L.exc_info.t = "none" THEN ambient ELSE L.exc_info
    IN  IF exc_info.t = "none"
        THEN [L EXCEPT !.exc_info = exc_info,
                       !.outcome = Raise(Exc("StackSentinelError",
                           <<"handle_exception called outside of exception handler">>,
                           "client"))]
        ELSE [L EXCEPT !.exc_info = exc_info]

\* Lines 130-137: unpack the triple, compute msg, wrap tags that are no list.
Unpack(L) ==
    LET value == L.exc_info.v.value
        msg == IF value.t = "exc" /\ Len(value.v.args) > 0
               THEN value.v.args[1]
               ELSE ReprOfValue(value)
    IN  [L EXCEPT !.etype = L.exc_info.v.etype,
                  !.value = value,
                  !.tb = L.exc_info.v.tb,
                  !.msg = msg,
                  !.tags = IF L.tags.t = "list" THEN L.tags ELSE PyList(<<L.tags>>)]

RECURSIVE WalkFrames(_)
\* Lines 144-153 with limit = None: one entry per link, in chain order.
WalkFrames(tb) ==
    IF tb = <<>> THEN <<>>
    ELSE <<[line |-> Head(tb).tb_lineno,
            module |-> Head(tb).co_filename,
            method |-> Head(tb).co_name]>> \o WalkFrames(Tail(tb))

\* Lines 139-153.
WalkTraceback(L) == [L EXCEPT !.new_tb = WalkFrames(L.tb), !.tb = <<>>]

\* _get_sys_info: a dict of interpreter facts.
SysInfo == PyDict([version |-> "3.x", version_info |-> "(3, x)",
                   path |-> "sys.path", platform |-> "linux"])

\* _get_machine_info: ok with the dict, or the exception a platform call raised.
GetMachineInfo(socketAvail, platformAvail, faults) ==
    LET hostname == IF socketAvail
                    THEN IF faults.hostname
                         THEN "<Could not determine: "
                              \o ReprOfValue(PyExc(Exc("OSError", <<"gethostname">>, "socket")))
                              \o ">"
                         ELSE "host1"
                    ELSE "<socket module not available>"
        base == [hostname |-> hostname, environ |-> "dict(os.environ)"]
    IN  IF ~platformAvail THEN [ok |-> TRUE, val |-> PyDict(base), exc |-> PyNone]
        ELSE IF faults.platform
        THEN [ok |-> FALSE, val |-> PyNone,
              exc |-> PyExc(Exc("AttributeError",
                                <<"module 'platform' has no attribute 'dist'">>, "platform"))]
        ELSE [ok |-> TRUE, exc |-> PyNone,
              val |-> PyDict([hostname |-> hostname, environ |-> "dict(os.environ)",
                              platform |-> "uname", node |-> "node",
                              libc_ver |-> "libc", version |-> "version",
                              dist |-> "dist"])]

\* A collector that overwrites what the caller supplied.
AlwaysAbsent(key, state) == TRUE

\* Lines 158 and 163: 'sys' not in state, 'machine' not in state.
Absent(key, state) == key \notin DOMAIN state

\* Lines 155-167: state defaults to {}; sys and machine are added when absent.
\* '<Unable to get machine: %e>' % e formats an exception as a float, which
\* raises TypeError inside the except clause.
MergeState(L, socketAvail, platformAvail, faults) ==
    LET state0 == IF L.state.t = "none" THEN EmptyDict ELSE L.state.v
        state1 == IF ~Absent("sys", state0) THEN state0
                  ELSE DictSet(state0, "sys",
                         IF faults.sys
                         THEN PyStr("<Unable to get sys: "
                                    \o ReprOfValue(PyExc(Exc("RuntimeError", <<"sys">>, "sys")))
                                    \o ">")
                         ELSE SysInfo)
        machine == GetMachineInfo(socketAvail, platformAvail, faults)
    IN  IF ~Absent("machine", state1)
        THEN [L EXCEPT !.state = PyDict(state1), !.faults = faults]
        ELSE IF machine.ok
        THEN [L EXCEPT !.state = PyDict(DictSet(state1, "machine", machine.val)),
                       !.faults = faults]
        ELSE [L EXCEPT !.state = PyDict(state1), !.faults = faults,
                       !.outcome = Raise(Exc("TypeError",
                                             <<"a float is required">>, "client"))]

\* self.tags.extend(tags): the same list, but the client's own list grows.
ExtendTags(self, tags) ==
    [self |-> [self EXCEPT !.tags = @ \o tags], tags |-> self.tags \o tags]

\* Line 185: self.tags + tags builds a new list and leaves the client alone.
ConcatTags(self, tags) == [self |-> self, tags |-> self.tags \o tags]

\* Lines 169-186: tags = [] when tags is None (it is a list by now), the
\* error's type and text, and the arguments of send_error. self.tags + tags
\* builds a new list: the client is returned as it was.
BuildSendErrorArgs(self, L) ==
    LET tags == IF L.tags.t = "none" THEN PyList(<<>>) ELSE L.tags
    IN  IF L.etype = "None"
        THEN [self |-> self,
              frame |-> [L EXCEPT !.tags = tags,
                                  !.outcome = Raise(Exc("AttributeError",
                                      <<"'NoneType' object has no attribute '__name__'">>,
                                      "client"))]]
        ELSE [self |-> ConcatTags(self, tags.v).self,
              frame |-> [L EXCEPT !.tags = tags,
                                  !.send_error_args = PyDict(
                                      [error_type |-> L.etype,
                                       error_message |-> StrOfException(L.value.v),
                                       traceback |-> L.new_tb,
                                       environment |-> self.environment,
                                       state |-> L.state,
                                       tags |-> ConcatTags(self, tags.v).tags,
                                       return_feedback_urls |-> L.inp.return_feedback_urls])]]

\* _generate_request: the envelope (json.dumps of it is the request's body)
\* and where it goes; tags that are None or empty become [].
GenerateRequest(self, a) ==
    [endpoint |-> self.endpoint,
     user_agent |-> "STACK SENTINEL PYTHON CLIENT",
     payload |-> [account_token |-> self.account_token,
                  project_token |-> self.project_token,
                  return_feedback_urls |-> a.return_feedback_urls,
                  errors |-> <<[error_type |-> a.error_type,
                                error_message |-> a.error_message,
                                environment |-> a.environment,
                                traceback |-> a.traceback,
                                state |-> a.state,
                                tags |-> a.tags]>>]]

\* The HTTPError urlopen raised.
HTTPError(http) == Exc("HTTPError", <<ToString(http.code), http.body>>, "urlopen")

\* A client that turns every HTTP error into StackSentinelError.
AnyHTTPError(http) == http.code >= 400

\* Line 240: e.code == 400.
IsValidationError(http) == http.code = 400

\* Lines 235-254: one urlopen; HTTP 400 becomes StackSentinelError(e.read()),
\* any other HTTPError is re-raised, a network failure is not caught, and a
\* reply is parsed and returned.
SendError(self, a, http) ==
    [request |-> PyDict(GenerateRequest(self, a)),
     urlopens |-> 1,
     outcome |-> IF http.kind = "http_error"
                 THEN IF IsValidationError(http)
                      THEN Raise(Exc("StackSentinelError", <<http.body>>, "client"))
                      ELSE Raise(HTTPError(http))
                 ELSE IF http.kind = "url_error"
                 THEN Raise(Exc("URLError", <<http.body>>, "urlopen"))
                 ELSE Return(PyDict([json |-> http.body]))]

\* A dispatch that forgets dry_run and always sends.
DispatchAlways(self, L, http) ==
    LET r == SendError(self, L.send_error_args.v, http)
    IN  [L EXCEPT !.sent = L.send_error_args,
                  !.request = r.request,
                  !.http = http,
                  !.urlopens = L.urlopens + r.urlopens,
                  !.outcome = r.outcome]

\* Lines 187-190: return the arguments on a dry run, send them otherwise.
Dispatch(self, L, http) ==
    IF L.inp.dry_run
    THEN [L EXCEPT !.outcome = Return(L.send_error_args)]
    ELSE LET r == SendError(self, L.send_error_args.v, http)
         IN  [L EXCEPT !.sent = L.send_error_args,
                       !.request = r.request,
                       !.http = http,
                       !.urlopens = L.urlopens + r.urlopens,
                       !.outcome = r.outcome]

Ended(L) == L.outcome.kind # "none"

\* handle_exception from entry to exit, run without interruption.
HandleException(self, inp, ambient, socketAvail, platformAvail, faults, http) ==
    LET L1 == ResolveExcInfo(Frame(inp), ambient)
        L2 == WalkTraceback(Unpack(L1))
        L3 == MergeState(L2, socketAvail, platformAvail, faults)
        L4 == BuildSendErrorArgs(self, L3).frame
    IN  IF Ended(L1) THEN L1
        ELSE IF Ended(L3) THEN L3
        ELSE IF Ended(L4) THEN L4
        ELSE Dispatch(self, L4, http)

\* ------------------------------------------------------------------ state
\* client:     the StackSentinelClient instance every caller shares
\* modules:    whether the imports of socket and platform succeeded
\* handling:   per thread, what sys.exc_info() returns there
\* pc, frame:  per thread, where its handle_exception call stands and its frame
\* selfAtCall: per thread, the client as it was when the call started
\* mw:         one call of StackSentinelMiddleware.__call__ (a generator)
VARIABLES client, modules, handling, pc, frame, selfAtCall, mw

vars == <<client, modules, handling, pc, frame, selfAtCall, mw>>

Threads == {"t1", "t2"}

BlankInp == [exc_info |-> PyNone, state |-> PyNone, tags |-> PyNone,
             return_feedback_urls |-> FALSE, dry_run |-> FALSE]

\* ----------------------------------------------------------------- inputs
Clients ==
    {ClientInit("acct", "proj", "production", tags, DefaultEndpoint) :
        tags \in {PyNone, PyList(<<PyStr("web")>>)}}

ModuleSets == [socket : BOOLEAN, platform : BOOLEAN]

\* Exceptions a caller may be handling: no, one or several args; KeyError
\* with one (its text differs); no traceback or the longest one.
HandledExcs ==
    {ExcInfo(Exc("ValueError", ArgsOf(n), "caller"), TbChain(m)) :
        n \in 0..MaxArgs, m \in {0, MaxFrames}}
    \cup {ExcInfo(Exc("KeyError", ArgsOf(1), "caller"), TbChain(1))}

ExplicitExcInfo == ExcInfo(Exc("IOError", ArgsOf(1), "caller"), TbChain(1))

States ==
    {PyNone,
     PyDict([form |-> PyStr("f=1")]),
     PyDict([sys |-> PyStr("my sys")]),
     PyDict([sys |-> PyStr("my sys"), machine |-> PyStr("my machine"),
             form |-> PyStr("f=1")]),
     PyDict([machine |-> PyStr("my machine")])}

TagArgs == {PyNone, PyStr("web"), PyList(<<>>), PyList(<<PyStr("web"), PyStr("db")>>)}

Inputs ==
    [exc_info : {PyNone, ExplicitExcInfo}, state : States, tags : TagArgs,
     return_feedback_urls : BOOLEAN, dry_run : BOOLEAN]

FaultSets ==
    {NoFaults, [NoFaults EXCEPT !.sys = TRUE], [NoFaults EXCEPT !.hostname = TRUE],
     [NoFaults EXCEPT !.platform = TRUE]}

HttpOutcomes ==
    {[kind |-> "ok", code |-> 200, body |-> "{}"],
     [kind |-> "http_error", code |-> 400, body |-> "bad token"],
     [kind |-> "http_error", code |-> 500, body |-> "oops"],
     [kind |-> "url_error", code |-> 0, body |-> "connection refused"]}

\* The smaller choices of the two concurrent callers.
ConcHandledExcs(t) ==
    IF t = "t1" THEN {ExcInfo(Exc("ValueError", ArgsOf(1), "caller"), TbChain(1))}
    ELSE {ExcInfo(Exc("KeyError", ArgsOf(MaxArgs), "caller"), TbChain(MaxFrames))}

ConcInputs ==
    [exc_info : {PyNone, ExplicitExcInfo},
     state : {PyNone, PyDict([sys |-> PyStr("my sys")])},
     tags : {PyNone, PyList(<<PyStr("web")>>)},
     return_feedback_urls : {FALSE}, dry_run : BOOLEAN]

ConcFaultSets == {NoFaults, [NoFaults EXCEPT !.hostname = TRUE]}

ConcHttpOutcomes ==
    {[kind |-> "ok", code |-> 200, body |-> "{}"],
     [kind |-> "http_error", code |-> 400, body |-> "bad token"]}

\* ---------------------------------------------------------------- threads
\* The thread enters an except block: e is the exception being handled.
EnterHandler(t, E) ==
    /\ pc[t] = "idle"
    /\ handling[t] = NoExcInfo
    /\ \E e \in E : handling' = [handling EXCEPT ![t] = e]
    /\ UNCHANGED <<client, modules, pc, frame, selfAtCall, mw>>

\* The thread leaves its except block.
LeaveHandler(t) ==
    /\ pc[t] = "idle"
    /\ handling[t] # NoExcInfo
    /\ handling' = [handling EXCEPT ![t] = NoExcInfo]
    /\ UNCHANGED <<client, modules, pc, frame, selfAtCall, mw>>

\* client.handle_exception(...) is called.
Call(t, I) ==
    /\ pc[t] = "idle"
    /\ \E inp \in I : frame' = [frame EXCEPT ![t] = Frame(inp)]
    /\ pc' = [pc EXCEPT ![t] = "entered"]
    /\ selfAtCall' = [selfAtCall EXCEPT ![t] = client]
    /\ UNCHANGED <<client, modules, handling, mw>>

\* sys.exc_info() of the calling thread.
SysExcInfo(t) == handling[t]

StepResolve(t) ==
    /\ pc[t] = "entered"
    /\ LET L == ResolveExcInfo(frame[t], SysExcInfo(t))
       IN  /\ frame' = [frame EXCEPT ![t] = L]
           /\ pc' = [pc EXCEPT ![t] = IF Ended(L) THEN "done" ELSE "resolved"]
    /\ UNCHANGED <<client, modules, handling, selfAtCall, mw>>

StepUnpack(t) ==
    /\ pc[t] = "resolved"
    /\ frame' = [frame EXCEPT ![t] = Unpack(frame[t])]
    /\ pc' = [pc EXCEPT ![t] = "unpacked"]
    /\ UNCHANGED <<client, modules, handling, selfAtCall, mw>>

StepWalk(t) ==
    /\ pc[t] = "unpacked"
    /\ frame' = [frame EXCEPT ![t] = WalkTraceback(frame[t])]
    /\ pc' = [pc EXCEPT ![t] = "walked"]
    /\ UNCHANGED <<client, modules, handling, selfAtCall, mw>>

StepMerge(t, F) ==
    /\ pc[t] = "walked"
    /\ \E faults \in F :
         LET L == MergeState(frame[t], modules.socket, modules.platform, faults)
         IN  /\ frame' = [frame EXCEPT ![t] = L]
             /\ pc' = [pc EXCEPT ![t] = IF Ended(L) THEN "done" ELSE "merged"]
    /\ UNCHANGED <<client, modules, handling, selfAtCall, mw>>

StepBuild(t) ==
    /\ pc[t] = "merged"
    /\ LET r == BuildSendErrorArgs(client, frame[t])
       IN  /\ frame' = [frame EXCEPT ![t] = r.frame]
           /\ client' = r.self
           /\ pc' = [pc EXCEPT ![t] = IF Ended(r.frame) THEN "done" ELSE "built"]
    /\ UNCHANGED <<modules, handling, selfAtCall, mw>>

StepDispatch(t, H) ==
    /\ pc[t] = "built"
    /\ \E http \in H : frame' = [frame EXCEPT ![t] = Dispatch(client, frame[t], http)]
    /\ pc' = [pc EXCEPT ![t] = "done"]
    /\ UNCHANGED <<client, modules, handling, selfAtCall, mw>>

\* The caller takes the result; the thread may call again.
StepReturn(t) ==
    /\ pc[t] = "done"
    /\ pc' = [pc EXCEPT ![t] = "idle"]
    /\ frame' = [frame EXCEPT ![t] = Frame(BlankInp)]
    /\ UNCHANGED <<client, modules, handling, selfAtCall, mw>>

\* ------------------------------------------------ StackSentinelMiddleware
\* What `except Exception` catches: KeyboardInterrupt and GeneratorExit
\* derive from BaseException only.
IsException(e) == e.cls \notin {"KeyboardInterrupt", "GeneratorExit"}

AppExcs == {Exc("ValueError", <<"boom">>, "app"), Exc("KeyboardInterrupt", <<>>, "app")}

\* The wrapped application: it raises when called (kind "raises"), returns
\* None (kind "none"), or returns a response that yields `items` items and
\* then is exhausted or, with `fails`, raises exc; hasClose: the response has
\* a close method.
NoApp == [kind |-> "none", exc |-> PyNone, items |-> 0, fails |-> FALSE, hasClose |-> FALSE]

Apps ==
    {[NoApp EXCEPT !.kind = "raises", !.exc = PyExc(e)] : e \in AppExcs}
    \cup {NoApp}
    \cup {[kind |-> "response", exc |-> PyNone, items |-> n, fails |-> FALSE, hasClose |-> c] :
            n \in 0..MaxItems, c \in BOOLEAN}
    \cup {[kind |-> "response", exc |-> PyExc(e), items |-> n, fails |-> TRUE, hasClose |-> c] :
            n \in 0..MaxItems, c \in BOOLEAN, e \in AppExcs}

\* The generator object __call__ returns, before its first next().
\* pc: created | suspended (at the yield) | finished | raised | closed;
\* hasResult: the app returned a response object; yielded: items passed on;
\* closes: calls of result.close(); reports: the handle_exception calls made;
\* appRaised: what the app raised; propagated: what left the generator.
Generator(app, environ) ==
    [pc |-> "created", app |-> app, environ |-> environ, hasResult |-> FALSE,
     yielded |-> 0, closes |-> 0, reports |-> <<>>,
     appRaised |-> PyNone, propagated |-> PyNone]

\* self.client.handle_exception(state={'wsgi_environ': environ}) in an except
\* clause handling e.
Report(self, mods, environ, e, faults, http) ==
    HandleException(self,
                    [BlankInp EXCEPT !.state = PyDict([wsgi_environ |-> PyStr(environ)])],
                    ExcInfo(e, TbChain(1)), mods.socket, mods.platform, faults, http)

\* A close placed after the loop instead of in a finally clause: skipped
\* when an exception is on its way out.
CloseAfterLoop(m) ==
    IF m.hasResult /\ m.app.hasClose /\ m.pc # "raised"
    THEN [m EXCEPT !.closes = @ + 1] ELSE m

\* Lines 310-312: the finally clause of the second try.
Finally(m) ==
    IF m.hasResult /\ m.app.hasClose THEN [m EXCEPT !.closes = @ + 1] ELSE m

\* Lines 298-300 and 306-308: report, then `raise`; an exception raised by
\* handle_exception leaves the except clause instead of e.
ExceptClause(m, e, report) ==
    [m EXCEPT !.reports = Append(@, report),
              !.pc = "raised",
              !.appRaised = PyExc(e),
              !.propagated = IF report.outcome.kind = "raise"
                             THEN report.outcome.val ELSE PyExc(e)]

\* An exception that `except Exception` does not catch passes through.
Uncaught(m, e) == [m EXCEPT !.pc = "raised", !.appRaised = PyExc(e), !.propagated = PyExc(e)]

\* Lines 304-312, from asking the response for its next item to the next
\* yield or the generator's end.
Iterate(m, report) ==
    IF m.yielded < m.app.items
    THEN [m EXCEPT !.yielded = @ + 1, !.pc = "suspended"]
    ELSE IF m.app.fails
    THEN IF IsException(m.app.exc.v)
         THEN Finally(ExceptClause(m, m.app.exc.v, report))
         ELSE Finally(Uncaught(m, m.app.exc.v))
    ELSE Finally([m EXCEPT !.pc = "finished"])

\* Lines 294-312 from the generator's start: call the app, then iterate.
Start(m, report) ==
    IF m.app.kind = "raises"
    THEN IF IsException(m.app.exc.v)
         THEN ExceptClause(m, m.app.exc.v, report)
         ELSE Uncaught(m, m.app.exc.v)
    ELSE IF m.app.kind = "none"
    THEN Finally([m EXCEPT !.pc = "finished"])
    ELSE Iterate([m EXCEPT !.hasResult = TRUE], report)

\* The consumer's next(): the generator runs to its next yield or to its end.
MWNext(F, H) ==
    /\ mw.pc \in {"created", "suspended"}
    /\ \E faults \in F, http \in H :
         LET e == IF mw.app.exc.t = "exc" THEN mw.app.exc.v ELSE Exc("", <<>>, "")
             report == Report(client, modules, mw.environ, e, faults, http)
         IN  mw' = IF mw.pc = "created" THEN Start(mw, report) ELSE Iterate(mw, report)
    /\ UNCHANGED <<client, modules, handling, pc, frame, selfAtCall>>

\* The consumer abandons the generator (close(), or its collection): nothing
\* runs when it never started; at the yield GeneratorExit is raised, which
\* `except Exception` does not catch, and the finally clause runs.
MWClose ==
    /\ mw.pc \in {"created", "suspended"}
    /\ mw' = IF mw.pc = "created" THEN [mw EXCEPT !.pc = "closed"]
             ELSE Finally([mw EXCEPT !.pc = "closed"])
    /\ UNCHANGED <<client, modules, handling, pc, frame, selfAtCall>>

\* ---------------------------------------------------------- specifications
InitThreads ==
    /\ handling = [t \in Threads |-> NoExcInfo]
    /\ pc = [t \in Threads |-> "idle"]
    /\ frame = [t \in Threads |-> Frame(BlankInp)]
    /\ selfAtCall = [t \in Threads |-> client]

\* One caller, every input.
Init ==
    /\ client \in Clients
    /\ modules \in ModuleSets
    /\ InitThreads
    /\ mw = Generator(NoApp, "")

Next ==
    \/ EnterHandler("t1", HandledExcs)
    \/ LeaveHandler("t1")
    \/ Call("t1", Inputs)
    \/ StepResolve("t1")
    \/ StepUnpack("t1")
    \/ StepWalk("t1")
    \/ StepMerge("t1", FaultSets)
    \/ StepBuild("t1")
    \/ StepDispatch("t1", HttpOutcomes)
    \/ StepReturn("t1")

Spec == Init /\ [][Next]_vars

\* Two callers on one client, interleaved step by step.
InitConc ==
    /\ client = ClientInit("acct", "proj", "production", PyList(<<PyStr("web")>>),
                           DefaultEndpoint)
    /\ modules = [socket |-> TRUE, platform |-> TRUE]
    /\ InitThreads
    /\ mw = Generator(NoApp, "")

NextConc ==
    \E t \in Threads :
        \/ EnterHandler(t, ConcHandledExcs(t))
        \/ LeaveHandler(t)
        \/ Call(t, ConcInputs)
        \/ StepResolve(t)
        \/ StepUnpack(t)
        \/ StepWalk(t)
        \/ StepMerge(t, ConcFaultSets)
        \/ StepBuild(t)
        \/ StepDispatch(t, ConcHttpOutcomes)
        \/ StepReturn(t)

SpecConc == InitConc /\ [][NextConc]_vars

\* One request through the middleware.
InitMW ==
    /\ client \in Clients
    /\ modules \in ModuleSets
    /\ InitThreads
    /\ mw \in {Generator(app, "GET /") : app \in Apps}

NextMW ==
    \/ MWNext(FaultSets, HttpOutcomes)
    \/ MWClose

SpecMW == InitMW /\ [][NextMW]_vars

\* ----------------------------------------------------------------- claims
Done(t) == pc[t] = "done"

\* The call got as far as the arguments of send_error.
ReportBuilt(L) == L.send_error_args.t = "dict"

\* What the specification calls normalized(call_tags).
NormalizedTags(tags) ==
    IF tags.t = "list" THEN tags.v
    ELSE IF tags.t = "none" THEN <<>>
    ELSE <<tags>>

\* C1: whenever the wrapped app raised E, the exception that leaves the
\* middleware is that same E, whatever handle_exception did.
C1_OriginalExceptionLeaves ==
    (mw.pc = "raised" /\ mw.appRaised.t = "exc") => mw.propagated = mw.appRaised

\* C2: a response that has close is closed exactly once by the time the
\* generator has ended (exhausted, raised or abandoned), never twice, and
\* nothing is closed when the app returned no response object.
C2_ClosedExactlyOnce ==
    /\ mw.closes <= 1
    /\ (mw.pc \in {"finished", "raised", "closed"} /\ mw.hasResult /\ mw.app.hasClose)
         => mw.closes = 1
    /\ (~mw.hasResult \/ ~mw.app.hasClose) => mw.closes = 0
    /\ mw.pc \in {"created", "suspended"} => mw.closes = 0

\* C2's case: the response raised while iterated, the report itself raised,
\* and the response was closed once.
C2_Witness ==
    /\ mw.pc = "raised"
    /\ mw.hasResult /\ mw.app.hasClose /\ mw.yielded > 0
    /\ Len(mw.reports) = 1
    /\ mw.reports[1].outcome.kind = "raise"
    /\ mw.closes = 1

\* C3: handle_exception without exc_info and outside any except block fails
\* with StackSentinelError, builds no report and sends nothing (stated for
\* the calls whose collectors all work, so that no other failure interferes).
C3_UsageErrorOutsideHandler ==
    \A t \in Threads :
        (Done(t) /\ frame[t].inp.exc_info.t = "none" /\ handling[t] = NoExcInfo
         /\ frame[t].faults = NoFaults)
        => /\ frame[t].outcome.kind = "raise"
           /\ frame[t].outcome.val.v.cls = "StackSentinelError"
           /\ ~ReportBuilt(frame[t])
           /\ frame[t].urlopens = 0

\* C4: the report's tags are the client's tags followed by the normalized
\* call tags, where omitted tags normalize to the empty list.
C4_TagsAreDefaultsThenCallTags ==
    \A t \in Threads :
        ReportBuilt(frame[t])
        => frame[t].send_error_args.v.tags
             = selfAtCall[t].tags \o NormalizedTags(frame[t].inp.tags)

\* The caller's state dict ({} when omitted).
CallerState(L) == IF L.inp.state.t = "none" THEN EmptyDict ELSE L.inp.state.v

\* C5: every key the caller supplied, sys and machine included, has the
\* caller's value in the report's state; sys and machine are the only keys
\* added.
C5_CallerStateWins ==
    \A t \in Threads :
        ReportBuilt(frame[t])
        => LET given == CallerState(frame[t])
               st == frame[t].send_error_args.v.state.v
           IN  /\ DOMAIN st = DOMAIN given \cup {"sys", "machine"}
               /\ \A k \in DOMAIN given : st[k] = given[k]

\* C5's case: the caller supplied sys but not machine, and a report exists.
C5_Witness ==
    \E t \in Threads :
        /\ Done(t) /\ ReportBuilt(frame[t])
        /\ DOMAIN CallerState(frame[t]) = {"sys"}
        /\ frame[t].send_error_args.v.state.v["sys"] = PyStr("my sys")
        /\ frame[t].send_error_args.v.state.v["machine"].t = "dict"

\* Two calls were given the same exception, state, tags and flag and met the
\* same collector faults.
SameCall(L, M) ==
    /\ L.exc_info = M.exc_info
    /\ L.inp.state = M.inp.state
    /\ L.inp.tags = M.inp.tags
    /\ L.inp.return_feedback_urls = M.inp.return_feedback_urls
    /\ L.faults = M.faults

C7_CollectorFailureIsContained ==
    \A t \in Threads :
        (Done(t) /\ frame[t].exc_info # NoExcInfo /\ frame[t].exc_info.t = "triple"
         /\ frame[t].faults # NoFaults)
        => /\ ReportBuilt(frame[t])
           /\ IF frame[t].inp.dry_run
              THEN frame[t].outcome = Return(frame[t].send_error_args)
              ELSE frame[t].sent = frame[t].send_error_args

\* C8: send_error calls urlopen once; HTTP 400 becomes StackSentinelError
\* carrying the response body; any other HTTP error leaves as the HTTPError
\* urlopen raised.
C8_SingleAttemptAndErrorMapping ==
    \A t \in Threads :
        (Done(t) /\ frame[t].sent.t = "dict")
        => /\ frame[t].urlopens = 1
           /\ (frame[t].http.kind = "http_error" /\ frame[t].http.code = 400)
                => /\ frame[t].outcome.kind = "raise"
                   /\ frame[t].outcome.val.v.cls = "StackSentinelError"
                   /\ frame[t].outcome.val.v.args = <<frame[t].http.body>>
           /\ (frame[t].http.kind = "http_error" /\ frame[t].http.code # 400)
                => /\ frame[t].outcome.kind = "raise"
                   /\ frame[t].outcome.val.v.cls = "HTTPError"
                   /\ frame[t].outcome.val.v.origin = "urlopen"
                   /\ frame[t].outcome.val.v.args
                        = <<ToString(frame[t].http.code), frame[t].http.body>>

\* C8's case: the server answered 400 "bad token".
C8_Witness ==
    \E t \in Threads :
        /\ Done(t) /\ frame[t].sent.t = "dict"
        /\ frame[t].http = [kind |-> "http_error", code |-> 400, body |-> "bad token"]
        /\ frame[t].outcome.val.v.cls = "StackSentinelError"
        /\ frame[t].outcome.val.v.args = <<"bad token">>

\* C9: under every interleaving of two calls on one client, a finished call
\* is what the same call would be run alone on the client as constructed
\* (nothing of the other call enters it), and the client's configuration is
\* what it was when the call started.
C9_ConcurrentCallsIndependent ==
    \A t \in Threads :
        /\ pc[t] # "idle" => client = selfAtCall[t]
        /\ Done(t) => frame[t] = HandleException(selfAtCall[t], frame[t].inp, handling[t],
                                                 modules.socket, modules.platform,
                                                 frame[t].faults, frame[t].http)

\* C9's case: both calls finished side by side, each with the report of its
\* own exception.
C9_Witness ==
    /\ Done("t1") /\ Done("t2")
    /\ ReportBuilt(frame["t1"]) /\ ReportBuilt(frame["t2"])
    /\ frame["t1"].inp.exc_info.t = "none" /\ frame["t2"].inp.exc_info.t = "none"
    /\ frame["t1"].send_error_args.v.error_type = "ValueError"
    /\ frame["t2"].send_error_args.v.error_type = "KeyError"
    /\ frame["t1"].inp.tags # frame["t2"].inp.tags
    /\ frame["t1"].inp.state # frame["t2"].inp.state

\* C10: error_type is the class name, and error_message is the exception's
\* first argument when it has one and its default text otherwise.
C10_MessageIsFirstArgument ==
    \A t \in Threads :
        ReportBuilt(frame[t])
        => LET e == frame[t].value.v
               a == frame[t].send_error_args.v
           IN  /\ a.error_type = e.cls
               /\ a.error_message = IF Len(e.args) >= 1 THEN e.args[1]
                                    ELSE StrOfException(e)

====
